---- MODULE Spec2Model ----
(***************************************************************************)
(* A model of src/app.py: the ANP production-data pipeline.                *)
(*                                                                         *)
(*   get_available_files   the listing-page classifier                     *)
(*   download_file         one GET, written to the download directory      *)
(*   update_metadata_cache the field ("Campo") index builder               *)
(*   load_data_for_fields  the batch loader                                *)
(*   process_dataframe     the transformation of the concatenated table    *)
(*   main                  the dashboard script, run once per interaction  *)
(*                                                                         *)
(* Strings are TLA+ strings and are searched character by character, as    *)
(* Python's "in", str.lower, str.strip, str.split and re.search do.        *)
(* A float cell is <<n>> (the number n) or <<>> (NaN, a missing value).    *)
(* process_dataframe is given tables that have no combined "Mês/Ano"       *)
(* column, so its lines 265-271 do nothing.                                *)
(***************************************************************************)
EXTENDS Integers, Sequences, FiniteSets, TLC

VARIABLES
    page,          \* the links of the listing page at DATA_URL: [text, href]
    target_env,    \* the argument of the last get_available_files call
    env_of,        \* per link of the page: the local "env" of the loop body
    files_found,   \* the list get_available_files returned
    df,            \* the table handed to process_dataframe
    out,           \* what process_dataframe returned, or the exception it raised
    disk,          \* the files of DOWNLOAD_DIR: [path, url]
    metadata,      \* per environment, the list in campos_<env>.json
    requests,      \* the GETs of the last operation, in order: [url, path, ok]
    st_messages,   \* what the last operation reported: [level, about]
    dfs,           \* the files whose table the last load appended to dfs
    selected_env,  \* the "Ambiente" radio of the dashboard
    session,       \* st.session_state: [has, data, env, campos]
    view,          \* what the last run of main put on the page
    pc             \* which operation ran last

pipeline_vars == <<disk, metadata, requests, st_messages, dfs>>

app_vars == <<selected_env, session, view>>

vars == <<page, target_env, env_of, files_found, df, out, disk, metadata,
          requests, st_messages, dfs, selected_env, session, view, pc>>

(***************************************************************************)
(* Strings                                                                 *)
(***************************************************************************)
UPPER == "ABCDEFGHIJKLMNOPQRSTUVWXYZÇÃÍ"
LOWER == "abcdefghijklmnopqrstuvwxyzçãí"
DIGITS == "0123456789"

CharAt(s, i) == SubSeq(s, i, i)

\* k in s
Contains(s, k) ==
    \E i \in 1..(Len(s) - Len(k) + 1) : SubSeq(s, i, i + Len(k) - 1) = k

IsDigit(c) == Contains(DIGITS, c)

DigitVal(c) == (CHOOSE i \in 1..10 : CharAt(DIGITS, i) = c) - 1

LowerChar(c) ==
    IF Contains(UPPER, c)
    THEN CharAt(LOWER, CHOOSE i \in 1..Len(UPPER) : CharAt(UPPER, i) = c)
    ELSE c

\* s.lower()
RECURSIVE Lower(_)
Lower(s) ==
    IF Len(s) = 0 THEN ""
    ELSE LowerChar(CharAt(s, 1)) \o Lower(SubSeq(s, 2, Len(s)))

\* s.strip()
RECURSIVE Strip(_)
Strip(s) ==
    IF Len(s) = 0 THEN s
    ELSE IF CharAt(s, 1) = " " THEN Strip(SubSeq(s, 2, Len(s)))
    ELSE IF CharAt(s, Len(s)) = " " THEN Strip(SubSeq(s, 1, Len(s) - 1))
    ELSE s

\* s.split('/')[-1]
LastSegment(s) ==
    LET slashes == {i \in 1..Len(s) : CharAt(s, i) = "/"}
    IN  IF slashes = {} THEN s
        ELSE LET last == CHOOSE i \in slashes : \A j \in slashes : j <= i
             IN  SubSeq(s, last + 1, Len(s))

\* re.search(r'(19|20)\d{2}', s): the positions where the pattern matches
YearMatches(s) ==
    {i \in 1..(Len(s) - 3) :
        /\ SubSeq(s, i, i + 1) \in {"19", "20"}
        /\ IsDigit(CharAt(s, i + 2))
        /\ IsDigit(CharAt(s, i + 3))}

\* year_match.group(0) of the leftmost match
YearOf(s) ==
    LET first == CHOOSE i \in YearMatches(s) : \A j \in YearMatches(s) : i <= j
    IN  SubSeq(s, first, first + 3)

\* the order of two year strings: four digits each, so the order of the numbers
YearNum(y) ==
    1000 * DigitVal(CharAt(y, 1)) + 100 * DigitVal(CharAt(y, 2))
        + 10 * DigitVal(CharAt(y, 3)) + DigitVal(CharAt(y, 4))

(***************************************************************************)
(* get_available_files                                                     *)
(***************************************************************************)
mar_keywords == {"mar", "offshore", "producao_mar", "marítima"}
terra_keywords == {"terra", "terrestre", "onshore", "producao_terra"}

Envs == {"Terra", "Mar"}

\* the guard of line 64
IsCandidate(link) ==
    /\ YearMatches(Strip(link.text)) # {}
    /\ Contains(Lower(link.href), ".csv")

\* lines 68-83: the local "env" for one accepted link
link_env(href_lower, text_lower) ==
    LET is_mar == (\E k \in mar_keywords : Contains(href_lower, k))
                  \/ (\E k \in mar_keywords : Contains(text_lower, k))
        is_terra == (\E k \in terra_keywords : Contains(href_lower, k))
                    \/ (\E k \in terra_keywords : Contains(text_lower, k))
    IN  IF is_mar /\ ~is_terra THEN "Mar"
        ELSE IF is_terra /\ ~is_mar THEN "Terra"
        ELSE IF is_mar /\ is_terra
             THEN IF Contains(href_lower, "mar") THEN "Mar" ELSE "Terra"
        ELSE "None"

\* the local "env" of every loop iteration ("skip": the link is no candidate)
LinkEnvs(pg) ==
    [i \in 1..Len(pg) |->
        IF IsCandidate(pg[i])
        THEN link_env(Lower(pg[i].href), Lower(Strip(pg[i].text)))
        ELSE "skip"]

\* lines 85-88: the tuple appended for an accepted link
Descriptor(link) ==
    [year |-> YearOf(Strip(link.text)),
     filename |-> LastSegment(link.href),
     url |-> link.href]

\* the loop of lines 55-88
RECURSIVE ScanLinks(_, _)
ScanLinks(pg, env) ==
    IF pg = <<>> THEN <<>>
    ELSE LET link == Head(pg)
             rest == ScanLinks(Tail(pg), env)
         IN  IF IsCandidate(link)
                /\ link_env(Lower(link.href), Lower(Strip(link.text))) = env
             THEN <<Descriptor(link)>> \o rest
             ELSE rest

\* list.sort(key=year, reverse=True): stable, equal years keep their order
RECURSIVE InsertByYear(_, _)
InsertByYear(sorted, d) ==
    IF sorted = <<>> THEN <<d>>
    ELSE IF YearNum(d.year) > YearNum(Head(sorted).year)
         THEN <<d>> \o sorted
         ELSE <<Head(sorted)>> \o InsertByYear(Tail(sorted), d)

RECURSIVE SortByYearDesc(_)
SortByYearDesc(fs) ==
    IF fs = <<>> THEN <<>>
    ELSE InsertByYear(SortByYearDesc(SubSeq(fs, 1, Len(fs) - 1)), fs[Len(fs)])

\* get_available_files(target_env), the GET of line 51 having returned pg
get_available_files(pg, env) == SortByYearDesc(ScanLinks(pg, env))

(***************************************************************************)
(* process_dataframe                                                       *)
(*                                                                         *)
(* A table is [cols, objects, rows]: the column names, the measurement     *)
(* columns read_csv left as text (dtype object), and the records.  A       *)
(* record holds one field per modelled column; the field of a column the   *)
(* table does not have is never read.  A well name is modelled by its rank *)
(* in the order sort_values gives names.                                   *)
(***************************************************************************)
NaN == <<>>
Num(n) == <<n>>
IsNum(c) == c # NaN

COL_POCO == "Poço"
COL_CAMPO == "Campo"
COL_ANO == "Ano"
COL_MES == "Mês"
COL_OIL == "Produção de Óleo (m³)"
COL_GAS_A == "Produção de Gás Associado (Mm³)"
COL_GAS_NA == "Produção de Gás Não Associado (Mm³)"
COL_AGUA == "Produção de Água (m³)"

\* the columns process_dataframe reads and the record field that models each
\* (of cols_to_convert, lines 274-285, the injection columns are only converted)
FieldOf == [c \in {COL_OIL, COL_GAS_A, COL_GAS_NA, COL_AGUA} |->
              CASE c = COL_OIL -> "Oil"
                [] c = COL_GAS_A -> "GasA"
                [] c = COL_GAS_NA -> "GasNA"
                [] c = COL_AGUA -> "Agua"]

cols_to_convert == DOMAIN FieldOf

cols_to_drop == {"Bacia", "Instalação", "Estado", "Produção de Condensado (m³)",
                 "Injeção de Polímeros (m³)", "Injeção de Outros Fluidos (m³)"}

EmptyFrame == [raised |-> "", cols |-> {}, objects |-> {}, rows |-> <<>>]

\* the state of the download directory, the index files and the network log
\* before anything ran
PipelineIdle ==
    /\ disk = {}
    /\ metadata = [e \in Envs |-> {}]
    /\ requests = <<>>
    /\ st_messages = <<>>
    /\ dfs = <<>>

\* a browser session before the first run of main: the radio shows its first
\* option and st.session_state is empty
NoView == [kind |-> "none", rows |-> <<>>, export |-> FALSE]

AppIdle ==
    /\ selected_env = "Terra"
    /\ session = [has |-> FALSE, data |-> EmptyFrame, env |-> "", campos |-> {}]
    /\ view = NoView

\* lines 289-295: a text column is parsed, what does not parse becomes 0.0;
\* a column that is already numeric keeps its missing values
ToNumeric(frame, r, c) ==
    IF c \in frame.cols /\ c \in frame.objects /\ r[FieldOf[c]] = NaN
    THEN Num(0)
    ELSE r[FieldOf[c]]

ConvertRow(frame, r) ==
    [r EXCEPT !.Oil = ToNumeric(frame, r, COL_OIL),
              !.GasA = ToNumeric(frame, r, COL_GAS_A),
              !.GasNA = ToNumeric(frame, r, COL_GAS_NA),
              !.Agua = ToNumeric(frame, r, COL_AGUA)]

\* pd.to_datetime(Ano-Mês-01) as a day number: days from 0000-03-01
IsLeap(y) == (y % 4 = 0 /\ y % 100 # 0) \/ y % 400 = 0

DaysInMonth(y, m) ==
    IF m = 2 THEN (IF IsLeap(y) THEN 29 ELSE 28)
    ELSE IF m \in {4, 6, 9, 11} THEN 30 ELSE 31

RECURSIVE DaysBeforeMonth(_, _)
DaysBeforeMonth(y, m) ==
    IF m = 1 THEN 0 ELSE DaysBeforeMonth(y, m - 1) + DaysInMonth(y, m - 1)

DaysBeforeYear(y) == 365 * y + (y - 1) \div 4 - (y - 1) \div 100 + (y - 1) \div 400

Data_Temp(r) == DaysBeforeYear(r.Ano) + DaysBeforeMonth(r.Ano, r.Mes)

\* the order of sort_values(by=['Poço', 'Data_Temp'])
SortKeyLess(a, b) ==
    \/ a.Poco < b.Poco
    \/ a.Poco = b.Poco /\ Data_Temp(a) < Data_Temp(b)

\* sort_values on several keys is a stable sort
RECURSIVE InsertSorted(_, _)
InsertSorted(sorted, r) ==
    IF sorted = <<>> THEN <<r>>
    ELSE IF SortKeyLess(r, Head(sorted))
         THEN <<r>> \o sorted
         ELSE <<Head(sorted)>> \o InsertSorted(Tail(sorted), r)

RECURSIVE sort_values(_)
sort_values(rows) ==
    IF rows = <<>> THEN <<>>
    ELSE InsertSorted(sort_values(SubSeq(rows, 1, Len(rows) - 1)), rows[Len(rows)])

RECURSIVE SumCells(_, _)
SumCells(rows, idx) ==
    IF idx = {} THEN 0
    ELSE LET i == CHOOSE j \in idx : TRUE
         IN  rows[i].Oil[1] + SumCells(rows, idx \ {i})

\* line 309: days since the earliest date of the row's well
tempo(rows, i) ==
    LET group == {j \in 1..Len(rows) : rows[j].Poco = rows[i].Poco}
        first == CHOOSE j \in group :
                    \A k \in group : Data_Temp(rows[j]) <= Data_Temp(rows[k])
    IN  Data_Temp(rows[i]) - Data_Temp(rows[first])

\* the bug of a cumsum taken over the whole column, without the groupby
Np_Ungrouped(rows, i) ==
    IF rows[i].Oil = NaN THEN NaN
    ELSE Num(SumCells(rows, {j \in 1..i : IsNum(rows[j].Oil)}))

\* line 310: groupby('Poço')[oil].cumsum(), which skips a missing value and
\* leaves it missing
Np(rows, i) ==
    IF rows[i].Oil = NaN THEN NaN
    ELSE Num(SumCells(rows, {j \in 1..i :
                  rows[j].Poco = rows[i].Poco /\ IsNum(rows[j].Oil)}))

\* df.get(col, 0)
GetOrZero(frame, r, c) == IF c \in frame.cols THEN r[FieldOf[c]] ELSE Num(0)

Add(a, b) == IF IsNum(a) /\ IsNum(b) THEN Num(a[1] + b[1]) ELSE NaN

Times(a, n) == IF IsNum(a) THEN Num(a[1] * n) ELSE NaN

\* a quotient is kept as <<numerator, denominator>>
Div(a, b) == IF IsNum(a) /\ IsNum(b) THEN <<a[1], b[1]>> ELSE NaN

\* series > 0: False for a missing value
Positive(c) == IsNum(c) /\ c[1] > 0

\* line 317
gas_total_m3(frame, r) ==
    Times(Add(GetOrZero(frame, r, COL_GAS_A), GetOrZero(frame, r, COL_GAS_NA)), 1000)

\* line 318
RGO(frame, r) ==
    IF Positive(r.Oil) THEN Div(gas_total_m3(frame, r), r.Oil) ELSE <<0, 1>>

\* line 319
RAO(frame, r) ==
    IF Positive(r.Oil) THEN Div(GetOrZero(frame, r, COL_AGUA), r.Oil) ELSE <<0, 1>>

\* lines 322-324: ln(oil) where oil > 0, kept as the term ln(n); NaN elsewhere
lnq(r) == IF Positive(r.Oil) THEN <<"ln", r.Oil[1]>> ELSE NaN

Derive(frame, r, t, np) ==
    [Poco |-> r.Poco, Campo |-> r.Campo, Ano |-> r.Ano, Mes |-> r.Mes,
     Oil |-> r.Oil, GasA |-> r.GasA, GasNA |-> r.GasNA, Agua |-> r.Agua,
     tempo |-> t, Np |-> np,
     RGO |-> RGO(frame, r), RAO |-> RAO(frame, r), lnq |-> lnq(r)]

DerivedCols == {"tempo", "Np", "RGO", "RAO", "lnq"}

\* lines 306-314 raise KeyError when Ano and Mês are there and 'Poço' or the
\* oil column is not; lines 318-324 raise KeyError without the oil column
KeyErrorOf(frame) ==
    IF {COL_ANO, COL_MES} \subseteq frame.cols /\ COL_POCO \notin frame.cols
    THEN COL_POCO
    ELSE IF COL_OIL \notin frame.cols THEN COL_OIL
    ELSE ""

process_dataframe(frame) ==
    LET converted == [i \in 1..Len(frame.rows) |-> ConvertRow(frame, frame.rows[i])]
        kept == frame.cols \ cols_to_drop
    IN  IF KeyErrorOf(frame) # ""
        THEN [raised |-> KeyErrorOf(frame), cols |-> {}, objects |-> {}, rows |-> <<>>]
        ELSE IF {COL_ANO, COL_MES} \subseteq frame.cols
        THEN LET sorted == sort_values(converted)
             IN  [raised |-> "", cols |-> kept \cup DerivedCols, objects |-> {},
                  rows |-> [i \in 1..Len(sorted) |->
                      Derive(frame, sorted[i], Num(tempo(sorted, i)), Np(sorted, i))]]
        ELSE [raised |-> "", cols |-> kept \cup DerivedCols, objects |-> {},
              rows |-> [i \in 1..Len(converted) |->
                  Derive(frame, converted[i], Num(0), Num(0))]]

(***************************************************************************)
(* The transformation alone.  The accumulation is a property of several    *)
(* records, so it runs on tables of up to MaxRows records of a few wells   *)
(* and dates; the ratios are computed record by record, so they run on     *)
(* one-record tables with every mix of columns and values.                 *)
(***************************************************************************)
MaxRows == 3

Wells == {1, 2}
Dates == {<<2019, 12>>, <<2020, 1>>}
OilVals == {Num(0 - 1), Num(0), Num(2), NaN}
GasVals == {Num(0 - 1), Num(3), NaN}
WaterVals == {Num(0), Num(5), NaN}
DtypeChoices == {{}, cols_to_convert}

AllCols == {COL_POCO, COL_CAMPO, COL_ANO, COL_MES, COL_OIL, COL_GAS_A,
            COL_GAS_NA, COL_AGUA, "Bacia"}

RowOf(campo, w, d, oil, ga, gna, ag) ==
    [Poco |-> w, Campo |-> campo, Ano |-> d[1], Mes |-> d[2],
     Oil |-> oil, GasA |-> ga, GasNA |-> gna, Agua |-> ag]

Row(w, d, oil, ga, gna, ag) == RowOf("A", w, d, oil, ga, gna, ag)

AccumRows == {Row(w, d, oil, Num(0), Num(0), Num(0)) :
                 w \in Wells, d \in Dates, oil \in OilVals}

AccumFrames ==
    {[raised |-> "", cols |-> AllCols, objects |-> o, rows |-> rs] :
        o \in DtypeChoices,
        rs \in UNION {[1..n -> AccumRows] : n \in 0..MaxRows}}

\* the columns a drifted schema may lack; Ano and Mês come and go together
DriftCols == {COL_POCO, COL_ANO, COL_OIL, COL_GAS_A, COL_GAS_NA, COL_AGUA}

ColsWithout(missing) ==
    (AllCols \ missing) \ (IF COL_ANO \in missing THEN {COL_MES} ELSE {})

Vals(c, missing, vals) == IF c \in missing THEN {NaN} ELSE vals

RatioFramesWithout(missing) ==
    {[raised |-> "", cols |-> ColsWithout(missing), objects |-> o,
      rows |-> <<Row(1, <<2020, 1>>, oil, ga, gna, ag)>>] :
        o \in DtypeChoices,
        oil \in Vals(COL_OIL, missing, OilVals),
        ga \in Vals(COL_GAS_A, missing, GasVals),
        gna \in Vals(COL_GAS_NA, missing, {Num(0), Num(2)}),
        ag \in Vals(COL_AGUA, missing, WaterVals)}

RatioFrames == UNION {RatioFramesWithout(missing) : missing \in SUBSET DriftCols}

InitTransform ==
    /\ df \in AccumFrames \cup RatioFrames
    /\ out = EmptyFrame
    /\ pc = "start"
    /\ page = <<>>
    /\ target_env = "Terra"
    /\ env_of = <<>>
    /\ files_found = <<>>
    /\ PipelineIdle
    /\ AppIdle

ProcessDataframe ==
    /\ pc = "start"
    /\ out' = process_dataframe(df)
    /\ pc' = "transformed"
    /\ UNCHANGED <<page, target_env, env_of, files_found, df>>
    /\ UNCHANGED pipeline_vars
    /\ UNCHANGED app_vars

NextTransform == ProcessDataframe

SpecTransform == InitTransform /\ [][NextTransform]_vars

(***************************************************************************)
(* The classifier alone: a listing page of at most MaxLinks links          *)
(***************************************************************************)
MaxLinks == 2

Hrefs == {"/d/producao_mar_2023.csv", "/d/producao_terra_2023.csv",
          "/d/offshore_2022.csv", "/d/mar_terra_2021.csv",
          "/d/dados_2023.CSV", "/d/terra_2023.pdf"}

Texts == {"Produção 2023", " Terra 2022 ", "Mar 2021",
          "Campos marítimos e terrestres 2020", "Terra"}

Links == [text : Texts, href : Hrefs]

Pages == UNION {[1..n -> Links] : n \in 0..MaxLinks}

InitClassifier ==
    /\ page \in Pages
    /\ target_env \in Envs
    /\ env_of = <<>>
    /\ files_found = <<>>
    /\ df = EmptyFrame
    /\ out = EmptyFrame
    /\ PipelineIdle
    /\ AppIdle
    /\ pc = "start"

GetAvailableFiles ==
    /\ pc = "start"
    /\ env_of' = LinkEnvs(page)
    /\ files_found' = get_available_files(page, target_env)
    /\ pc' = "classified"
    /\ UNCHANGED <<page, target_env, df, out>>
    /\ UNCHANGED pipeline_vars
    /\ UNCHANGED app_vars

NextClassifier == GetAvailableFiles

SpecClassifier == InitClassifier /\ [][NextClassifier]_vars

(***************************************************************************)
(* The site: the listing page and what each URL serves.  A served file is  *)
(* [header, readable, frame]: whether the scan of lines 158-168 finds a    *)
(* "Campo" header, whether read_csv (lines 235-238) parses it, and the     *)
(* table read_csv gives.  Any GET may fail.                                *)
(***************************************************************************)
DATA_URL == "https://www.gov.br/anp/pt-br/centrais-de-conteudo/dados-abertos/fase-de-desenvolvimento-e-producao"
DOWNLOAD_DIR == "anp_data"

DATA_PAGE ==
    <<[text |-> "Terra 2023", href |-> "/d/producao_terra_2023.csv"],
      [text |-> "Mar 2023", href |-> "/d/producao_mar_2023.csv"],
      [text |-> "Terra 2021", href |-> "/d/producao_terra_2021.csv"],
      [text |-> "Terra 2022", href |-> "/d/producao_terra_2022.csv"],
      [text |-> "Terra 2020", href |-> "/d/producao_terra_2020.csv"]>>

Urls == {DATA_PAGE[i].href : i \in 1..Len(DATA_PAGE)}

Served(rows) ==
    [header |-> TRUE, readable |-> TRUE,
     frame |-> [raised |-> "", cols |-> AllCols, objects |-> cols_to_convert,
                rows |-> rows]]

Corrupt == [header |-> FALSE, readable |-> FALSE, frame |-> EmptyFrame]

Remote(url) ==
    CASE url = "/d/producao_terra_2023.csv" ->
            Served(<<RowOf("A", 1, <<2023, 1>>, Num(2), Num(3), Num(0), Num(5))>>)
      [] url = "/d/producao_terra_2022.csv" -> Corrupt
      [] url = "/d/producao_terra_2021.csv" ->
            Served(<<RowOf("A", 1, <<2021, 1>>, Num(2), Num(0), Num(0), Num(0))>>)
      [] url = "/d/producao_terra_2020.csv" ->
            Served(<<RowOf("B", 2, <<2020, 1>>, Num(0), Num(0), Num(0), Num(0))>>)
      [] url = "/d/producao_mar_2023.csv" ->
            Served(<<RowOf("M", 3, <<2023, 1>>, Num(2), Num(3), Num(0), Num(0))>>)

(***************************************************************************)
(* download_file, update_metadata_cache, load_data_for_fields              *)
(*                                                                         *)
(* A run is [disk, requests, messages, campos, dfs]: the download          *)
(* directory, the GETs made and the messages reported so far, and the      *)
(* locals unique_campos and dfs.  net[url] tells whether a GET of url      *)
(* succeeds during this operation.                                         *)
(***************************************************************************)
QUICK_SCAN_FILES == 3

\* lines 137-138 and 220-221
local_path(year, env, filename) ==
    DOWNLOAD_DIR \o "/" \o year \o "_" \o env \o "_" \o filename

\* os.path.exists(local_path)
path_exists(dsk, path) == \E f \in dsk : f.path = path

\* what open(local_path) reads: the bytes the download wrote
Content(dsk, path) == Remote((CHOOSE f \in dsk : f.path = path).url)

Request(url, path, ok) == [url |-> url, path |-> path, ok |-> ok]

Message(level, about) == [level |-> level, about |-> about]

\* the bug of opening local_path for writing before the GET: a failed GET
\* leaves an empty file behind
download_file_OpensFirst(run, url, path, ok) ==
    [run EXCEPT !.disk = @ \cup {[path |-> path, url |-> url]},
                !.requests = Append(@, Request(url, path, ok)),
                !.messages = IF ok THEN @ ELSE Append(@, Message("error", url))]

\* download_file: the file is written only after the GET succeeded
download_file(run, url, path, ok) ==
    IF ok
    THEN [run EXCEPT !.disk = @ \cup {[path |-> path, url |-> url]},
                     !.requests = Append(@, Request(url, path, TRUE))]
    ELSE [run EXCEPT !.requests = Append(@, Request(url, path, FALSE)),
                     !.messages = Append(@, Message("error", url))]

\* lines 50-53 and 94-96 around get_available_files: the GET of the listing
FetchListing(run, listing_ok) ==
    IF listing_ok
    THEN [run EXCEPT !.requests = Append(@, Request(DATA_URL, "", TRUE))]
    ELSE [run EXCEPT !.requests = Append(@, Request(DATA_URL, "", FALSE)),
                     !.messages = Append(@, Message("error", DATA_URL))]

\* what get_available_files returns for the site's page, per environment
SiteFiles == [e \in Envs |-> get_available_files(DATA_PAGE, e)]

\* get_available_files(env): [] when the GET of the listing fails
Listing(env, listing_ok) == IF listing_ok THEN SiteFiles[env] ELSE <<>>

NewRun(dsk) ==
    [disk |-> dsk, requests |-> <<>>, messages |-> <<>>, campos |-> {}, dfs |-> <<>>]

\* lines 149-190: the distinct values of the "Campo" column, if one is found
ExtractCampos(content) ==
    IF content.header
    THEN {content.frame.rows[i].Campo : i \in 1..Len(content.frame.rows)}
    ELSE {}

\* lines 136-190: one pass of the indexing loop
IndexFile(run, env, f, net) ==
    LET path == local_path(f.year, env, f.filename)
        got == IF path_exists(run.disk, path) THEN run
               ELSE download_file(run, f.url, path, net[f.url])
    IN  IF ~path_exists(got.disk, path) THEN got
        ELSE [got EXCEPT !.campos = @ \cup ExtractCampos(Content(got.disk, path))]

RECURSIVE IndexLoop(_, _, _, _)
IndexLoop(run, env, files, net) ==
    IF files = <<>> THEN run
    ELSE IndexLoop(IndexFile(run, env, Head(files), net), env, Tail(files), net)

\* files_to_process[:3]
Take(files, n) == SubSeq(files, 1, IF Len(files) < n THEN Len(files) ELSE n)

\* save_metadata: the file is rewritten with the list it is given
save_metadata(meta, env, campos) == [meta EXCEPT ![env] = campos]

\* load_metadata
load_metadata(meta, env) == meta[env]

\* update_metadata_cache: [run, metadata] after the call, line 120 having
\* returned files_to_process
update_metadata_cache(files_to_process, dsk, meta, env, full_scan, listing_ok, net) ==
    LET listed == FetchListing(NewRun(dsk), listing_ok)
    IN  IF files_to_process = <<>>
        THEN [run |-> [listed EXCEPT !.messages = Append(@, Message("warning", env))],
              metadata |-> meta]
        ELSE LET scanned == IndexLoop(listed, env,
                                IF full_scan THEN files_to_process
                                ELSE Take(files_to_process, QUICK_SCAN_FILES), net)
                 told == IF scanned.campos = {}
                         THEN [scanned EXCEPT
                                  !.messages = Append(@, Message("error", env))]
                         ELSE [scanned EXCEPT
                                  !.messages = Append(@, Message("success", env))]
             IN  [run |-> told, metadata |-> save_metadata(meta, env, scanned.campos)]

\* lines 243-244
RECURSIVE SelectRows(_, _)
SelectRows(rows, selected_campos) ==
    IF rows = <<>> THEN <<>>
    ELSE IF Head(rows).Campo \in selected_campos
         THEN <<Head(rows)>> \o SelectRows(Tail(rows), selected_campos)
         ELSE SelectRows(Tail(rows), selected_campos)

FilterCampos(frame, selected_campos) ==
    IF selected_campos # {} /\ COL_CAMPO \in frame.cols
    THEN [frame EXCEPT !.rows = SelectRows(@, selected_campos)]
    ELSE frame

\* lines 219-249: one pass of the loading loop; a file read_csv cannot parse
\* is passed over by "except Exception: pass"
LoadFile(run, env, f, net, selected_campos) ==
    LET path == local_path(f.year, env, f.filename)
        got == IF path_exists(run.disk, path) THEN run
               ELSE download_file(run, f.url, path, net[f.url])
    IN  IF ~path_exists(got.disk, path) THEN got
        ELSE IF ~Content(got.disk, path).readable THEN got
        ELSE LET df_temp == FilterCampos(Content(got.disk, path).frame,
                                         selected_campos)
             IN  IF df_temp.rows = <<>> THEN got
                 ELSE [got EXCEPT !.dfs = Append(@, [url |-> f.url, frame |-> df_temp])]

RECURSIVE LoadLoop(_, _, _, _, _)
LoadLoop(run, env, files, net, selected_campos) ==
    IF files = <<>> THEN run
    ELSE LoadLoop(LoadFile(run, env, Head(files), net, selected_campos),
                  env, Tail(files), net, selected_campos)

\* pd.concat(dfs, ignore_index=True)
RECURSIVE concat(_)
concat(loaded) ==
    IF loaded = <<>> THEN EmptyFrame
    ELSE LET rest == concat(Tail(loaded))
         IN  [raised |-> "",
              cols |-> Head(loaded).frame.cols \cup rest.cols,
              objects |-> Head(loaded).frame.objects \cup rest.objects,
              rows |-> Head(loaded).frame.rows \o rest.rows]

\* load_data_for_fields: [run, out] after the call, line 210 having returned
\* files_to_process; selected_campos = {} stands for None
load_data_for_fields(files_to_process, dsk, env, selected_campos, listing_ok, net) ==
    LET listed == FetchListing(NewRun(dsk), listing_ok)
        loaded == LoadLoop(listed, env, files_to_process, net, selected_campos)
    IN  IF files_to_process = <<>> THEN [run |-> listed, out |-> EmptyFrame]
        ELSE IF loaded.dfs = <<>> THEN [run |-> loaded, out |-> EmptyFrame]
        ELSE [run |-> loaded, out |-> process_dataframe(concat(loaded.dfs))]

(***************************************************************************)
(* The pipeline: index builds and loads in any order, any GET failing      *)
(***************************************************************************)
UrlsOf(files) == {files[i].url : i \in 1..Len(files)}

\* the listed URLs that have no local copy: the only GETs an operation can make
Missing(files, env, dsk) ==
    {files[i].url : i \in {j \in 1..Len(files) :
        ~path_exists(dsk, local_path(files[j].year, env, files[j].filename))}}

\* the field names the files of one environment hold
CamposOf(env) ==
    UNION {ExtractCampos(Remote(u)) : u \in UrlsOf(SiteFiles[env])}

\* the selections the multiselect of main can hand to load_data_for_fields:
\* none, or names of the environment's index
Selections(env) == {sel \in SUBSET CamposOf(env) : Cardinality(sel) <= 1}

Init ==
    /\ page = DATA_PAGE
    /\ target_env = "Terra"
    /\ env_of = <<>>
    /\ files_found = <<>>
    /\ df = EmptyFrame
    /\ out = EmptyFrame
    /\ PipelineIdle
    /\ AppIdle
    /\ pc = "start"

UpdateMetadataCache(env, full_scan) ==
    \E listing_ok \in BOOLEAN :
        LET files == Listing(env, listing_ok)
        IN  \E net \in [Missing(files, env, disk) -> BOOLEAN] :
            LET r == update_metadata_cache(files, disk, metadata, env, full_scan,
                                           listing_ok, net)
            IN  /\ disk' = r.run.disk
                /\ metadata' = r.metadata
                /\ requests' = r.run.requests
                /\ st_messages' = r.run.messages
                /\ dfs' = <<>>
                /\ target_env' = env
                /\ files_found' = files
                /\ pc' = IF full_scan THEN "index_full" ELSE "index_quick"
                /\ UNCHANGED <<page, env_of, df, out>>
                /\ UNCHANGED app_vars

LoadDataForFields(env, selected_campos) ==
    \E listing_ok \in BOOLEAN :
        LET files == Listing(env, listing_ok)
        IN  \E net \in [Missing(files, env, disk) -> BOOLEAN] :
            LET r == load_data_for_fields(files, disk, env, selected_campos,
                                          listing_ok, net)
            IN  /\ disk' = r.run.disk
                /\ requests' = r.run.requests
                /\ st_messages' = r.run.messages
                /\ dfs' = r.run.dfs
                /\ out' = r.out
                /\ target_env' = env
                /\ files_found' = files
                /\ pc' = "load"
                /\ UNCHANGED <<page, env_of, df, metadata>>
                /\ UNCHANGED app_vars

Next ==
    \/ \E env \in Envs, full_scan \in BOOLEAN : UpdateMetadataCache(env, full_scan)
    \/ \E env \in Envs : \E selected_campos \in Selections(env) :
            LoadDataForFields(env, selected_campos)

Spec == Init /\ [][Next]_vars

(***************************************************************************)
(* main: one run of the dashboard script per interaction.  The user picks  *)
(* the environment and may press one button; the buttons of lines 356-364  *)
(* exist only while the index of the environment is empty, the one of line *)
(* 377 only when it is not.                                                *)
(***************************************************************************)
\* lines 429-433: the "Filtrar Poço" multiselect
RECURSIVE FilterWells(_, _)
FilterWells(rows, sel_wells) ==
    IF rows = <<>> THEN <<>>
    ELSE IF Head(rows).Poco \in sel_wells
         THEN <<Head(rows)>> \o FilterWells(Tail(rows), sel_wells)
         ELSE FilterWells(Tail(rows), sel_wells)

WellsOf(frame) == {frame.rows[i].Poco : i \in 1..Len(frame.rows)}

\* the bug of leaving out the check of line 389
render_NoEnvCheck(sess, env, cached_campos, sel_wells) ==
    IF sess.has /\ sess.data.rows # <<>>
    THEN LET shown == IF sel_wells # {}
                      THEN FilterWells(sess.data.rows, sel_wells)
                      ELSE sess.data.rows
         IN  [kind |-> "table", rows |-> shown, export |-> shown # <<>>]
    ELSE IF cached_campos # {}
         THEN [kind |-> "info", rows |-> <<>>, export |-> FALSE]
         ELSE NoView

\* lines 385-456, with the session and the index as they are at that point
render(sess, env, cached_campos, sel_wells) ==
    IF sess.has /\ sess.data.rows # <<>>
    THEN IF sess.env # env
         THEN [kind |-> "warning", rows |-> <<>>, export |-> FALSE]
         ELSE LET shown == IF sel_wells # {}
                           THEN FilterWells(sess.data.rows, sel_wells)
                           ELSE sess.data.rows
              IN  [kind |-> "table", rows |-> shown, export |-> shown # <<>>]
    ELSE IF cached_campos # {}
         THEN [kind |-> "info", rows |-> <<>>, export |-> FALSE]
         ELSE NoView

WellFilters(sess) == {w \in SUBSET WellsOf(sess.data) : Cardinality(w) <= 1}

\* a run with no button pressed
MainView(env) ==
    \E sel_wells \in WellFilters(session) :
        /\ selected_env' = env
        /\ view' = render(session, env, load_metadata(metadata, env), sel_wells)
        /\ pc' = "main"
        /\ UNCHANGED session
        /\ UNCHANGED <<page, target_env, env_of, files_found, df, out>>
        /\ UNCHANGED pipeline_vars

\* lines 356-364: a scan button, then st.rerun() runs the script again
MainIndex(env, full_scan) ==
    /\ load_metadata(metadata, env) = {}
    /\ \E listing_ok \in BOOLEAN :
        LET files == Listing(env, listing_ok)
        IN  \E net \in [Missing(files, env, disk) -> BOOLEAN] :
            LET r == update_metadata_cache(files, disk, metadata, env, full_scan,
                                           listing_ok, net)
            IN  /\ disk' = r.run.disk
                /\ metadata' = r.metadata
                /\ requests' = r.run.requests
                /\ st_messages' = r.run.messages
                /\ dfs' = <<>>
                /\ target_env' = env
                /\ files_found' = files
                /\ selected_env' = env
                /\ \E sel_wells \in WellFilters(session) :
                      view' = render(session, env, load_metadata(r.metadata, env),
                                     sel_wells)
                /\ pc' = IF full_scan THEN "main_full" ELSE "main_quick"
                /\ UNCHANGED session
                /\ UNCHANGED <<page, env_of, df, out>>

\* lines 377-382: the load button; an exception of load_data_for_fields ends
\* the run before the session is written
MainLoad(env, sel_campos) ==
    /\ load_metadata(metadata, env) # {}
    /\ sel_campos \subseteq load_metadata(metadata, env)
    /\ \E listing_ok \in BOOLEAN :
        LET files == Listing(env, listing_ok)
        IN  \E net \in [Missing(files, env, disk) -> BOOLEAN] :
            LET r == load_data_for_fields(files, disk, env, sel_campos,
                                          listing_ok, net)
                loaded == [has |-> TRUE, data |-> r.out, env |-> env,
                           campos |-> sel_campos]
            IN  /\ disk' = r.run.disk
                /\ requests' = r.run.requests
                /\ st_messages' = r.run.messages
                /\ dfs' = r.run.dfs
                /\ out' = r.out
                /\ target_env' = env
                /\ files_found' = files
                /\ selected_env' = env
                /\ session' = IF r.out.raised # "" THEN session ELSE loaded
                /\ \E sel_wells \in WellFilters(loaded) :
                      view' = IF r.out.raised # ""
                              THEN [kind |-> "exception", rows |-> <<>>,
                                    export |-> FALSE]
                              ELSE render(loaded, env, load_metadata(metadata, env),
                                          sel_wells)
                /\ pc' = "main_load"
                /\ UNCHANGED <<page, env_of, df, metadata>>

NextApp ==
    \/ \E env \in Envs : MainView(env)
    \/ \E env \in Envs, full_scan \in BOOLEAN : MainIndex(env, full_scan)
    \/ \E env \in Envs : \E sel_campos \in Selections(env) : MainLoad(env, sel_campos)

SpecApp == Init /\ [][NextApp]_vars

(***************************************************************************)
(* Properties                                                              *)
(***************************************************************************)
HasKeyword(str, keywords) == \E k \in keywords : Contains(str, k)

HasLocalCopy(dsk, path) == path \in {f.path : f \in dsk}

FileRequests(reqs) == {i \in 1..Len(reqs) : reqs[i].path # ""}

\* the environment the resolution policy of the specification gives a link:
\* "any" where the policy is silent (both families in the text, none in the href)
PolicyEnv(link) ==
    LET href == Lower(link.href)
        text == Lower(Strip(link.text))
        href_mar == HasKeyword(href, mar_keywords)
        href_terra == HasKeyword(href, terra_keywords)
        is_mar == href_mar \/ HasKeyword(text, mar_keywords)
        is_terra == href_terra \/ HasKeyword(text, terra_keywords)
    IN  IF is_mar /\ ~is_terra THEN "Mar"
        ELSE IF is_terra /\ ~is_mar THEN "Terra"
        ELSE IF ~is_mar /\ ~is_terra THEN "None"
        ELSE IF href_mar /\ ~href_terra THEN "Mar"
        ELSE IF href_terra THEN "Terra"
        ELSE "any"

\* C1: the persisted field index of an environment is never pruned: every
\* field name in it before an index build is still in it after the build.
C1_IndexNeverPruned ==
    [][\A e \in Envs : metadata[e] \subseteq metadata'[e]]_vars

\* C2: when the data of an environment is already persisted (every listed file
\* has its local copy), obtaining the dataset makes no network call at all,
\* neither the GET of the listing page nor a GET of a file.
C2_NoNetworkWhenPersisted ==
    [][(pc' = "load" /\ Missing(SiteFiles[target_env'], target_env', disk) = {})
          => requests' = <<>>]_vars

\* C3: in a batch load a failing file (its GET fails, or it cannot be parsed)
\* is left out without aborting the batch, every other file is loaded (unless
\* the field selection leaves none of its records), and exactly one diagnostic
\* is reported per failing file.
C3_FailuresIsolatedAndReported ==
    pc = "load" =>
        \A i \in 1..Len(files_found) :
            LET f == files_found[i]
                path == local_path(f.year, target_env, f.filename)
                failed == \/ ~HasLocalCopy(disk, path)
                          \/ ~Remote(f.url).readable
                loaded == \E k \in 1..Len(dfs) : dfs[k].url = f.url
                reports == {k \in 1..Len(st_messages) : st_messages[k].about = f.url}
            IN  /\ failed => ~loaded /\ Cardinality(reports) = 1
                /\ ~failed => reports = {}
                /\ (~failed /\ ~loaded) =>
                        \A k \in 1..Len(out.rows) :
                            out.rows[k].Campo \notin ExtractCampos(Remote(f.url))

\* C4: the classifier resolves the environment of every candidate link by
\* the policy: one keyword family matching gives that environment; both
\* matching gives the environment the href signals, Onshore when the href
\* matches both families; no family matching drops the link.
C4_ResolutionPolicy ==
    pc = "classified" =>
        \A i \in 1..Len(page) :
            (IsCandidate(page[i]) /\ PolicyEnv(page[i]) # "any")
                => env_of[i] = PolicyEnv(page[i])

\* C5: the result of the classifier holds no two descriptors with the same
\* URL for one (year, environment), and is ordered by year descending.
C5_DeduplicatedAndSorted ==
    pc = "classified" =>
        /\ \A i, j \in 1..Len(files_found) :
              (i # j /\ files_found[i].year = files_found[j].year)
                  => files_found[i].url # files_found[j].url
        /\ \A i \in 1..(Len(files_found) - 1) :
              YearNum(files_found[i].year) >= YearNum(files_found[i + 1].year)

\* the records of one well, in the order of the table
WellRecords(rows, w) ==
    LET OfWell(r) == r.Poco = w
    IN  SelectSeq(rows, OfWell)

\* chronological order of two records
Month(r) == 12 * r.Ano + r.Mes

RECURSIVE SumOil(_, _)
SumOil(rows, k) ==
    IF k = 0 THEN 0
    ELSE SumOil(rows, k - 1) + (IF IsNum(rows[k].Oil) THEN rows[k].Oil[1] ELSE 0)

\* res holds exactly the records inp of a well, in chronological order,
\* records of one month in the order of the file
ChronologicalOrderOf(res, inp, objects) ==
    /\ Len(res) = Len(inp)
    /\ \A k \in 1..(Len(res) - 1) : Month(res[k]) <= Month(res[k + 1])
    /\ \E p \in [1..Len(inp) -> 1..Len(inp)] :
          /\ \A a, b \in 1..Len(inp) : a # b => p[a] # p[b]
          /\ \A k \in 1..Len(inp) :
                /\ Month(res[k]) = Month(inp[p[k]])
                /\ res[k].Oil = IF inp[p[k]].Oil = NaN /\ COL_OIL \in objects
                                THEN Num(0) ELSE inp[p[k]].Oil
          /\ \A a, b \in 1..Len(inp) :
                (a < b /\ Month(res[a]) = Month(res[b])) => p[a] < p[b]

\* Np is the running sum of the well's own oil column, a missing value
\* giving a missing sum at its record only
RunningSum(res) ==
    /\ \A k \in 1..Len(res) :
          res[k].Np = IF IsNum(res[k].Oil) THEN Num(SumOil(res, k)) ELSE NaN
    /\ Len(res) > 0 => res[1].Np = res[1].Oil

HasAccumulationColumns(frame) ==
    {COL_POCO, COL_ANO, COL_MES, COL_OIL} \subseteq frame.cols

PerWellRunningSum ==
    \A w \in WellsOf(df) :
        /\ ChronologicalOrderOf(WellRecords(out.rows, w), WellRecords(df.rows, w),
                                df.objects)
        /\ RunningSum(WellRecords(out.rows, w))

\* C6 as amended: for a table with Year, Month, Well and OilProduction
\* columns, CumulativeOil of every well is the running sum of OilProduction
\* over the well's own records in chronological order and equals the first
\* record's OilProduction at the first record; from one record to the next it
\* does not decrease where the later record's OilProduction is not negative.
C6_CumulativeOilPerWell ==
    (pc = "transformed" /\ HasAccumulationColumns(df)) =>
        /\ out.raised = ""
        /\ PerWellRunningSum
        /\ \A w \in WellsOf(df) :
              LET res == WellRecords(out.rows, w)
              IN  \A k \in 1..(Len(res) - 1) :
                      (IsNum(res[k].Np) /\ IsNum(res[k + 1].Np)
                          /\ res[k + 1].Oil[1] >= 0)
                          => res[k].Np[1] <= res[k + 1].Np[1]

\* C6 as stated: CumulativeOil of every well is the running sum over the
\* well's own records in chronological order and is non-decreasing across them.
C6_CumulativeOilNonDecreasing ==
    (pc = "transformed" /\ HasAccumulationColumns(df)) =>
        /\ out.raised = ""
        /\ PerWellRunningSum
        /\ \A w \in WellsOf(df) :
              LET res == WellRecords(out.rows, w)
              IN  \A k \in 1..(Len(res) - 1) :
                      (IsNum(res[k].Np) /\ IsNum(res[k + 1].Np))
                          => res[k].Np[1] <= res[k + 1].Np[1]

\* a table of three records in which a well's later month comes first and
\* another well's record with oil stands between the two
C6_Witness ==
    /\ pc = "transformed"
    /\ HasAccumulationColumns(df)
    /\ Len(df.rows) = 3
    /\ df.rows[1].Poco = df.rows[3].Poco
    /\ df.rows[2].Poco # df.rows[1].Poco
    /\ Month(df.rows[1]) > Month(df.rows[3])
    /\ \A i \in 1..3 : df.rows[i].Oil = Num(2)
    /\ out.raised = ""
    /\ \E k \in 1..3 : out.rows[k].Np = Num(4)

\* C7: for every record transform produces, GasOilRatio and WaterOilRatio are
\* finite and >= 0, are 0 when OilProduction <= 0, and are otherwise
\* 1000 x (AssociatedGas + NonAssociatedGas) / OilProduction and
\* WaterProduction / OilProduction.
C7_RatiosFiniteNonNegative ==
    (pc = "transformed" /\ out.raised = "") =>
        \A k \in 1..Len(out.rows) :
            LET r == out.rows[k]
                gas_a == IF COL_GAS_A \in df.cols THEN r.GasA ELSE Num(0)
                gas_na == IF COL_GAS_NA \in df.cols THEN r.GasNA ELSE Num(0)
                water == IF COL_AGUA \in df.cols THEN r.Agua ELSE Num(0)
            IN  /\ Len(r.RGO) = 2 /\ Len(r.RAO) = 2
                /\ r.RGO[1] * r.RGO[2] >= 0
                /\ r.RAO[1] * r.RAO[2] >= 0
                /\ ~Positive(r.Oil) => r.RGO[1] = 0 /\ r.RAO[1] = 0
                /\ Positive(r.Oil) =>
                      /\ IsNum(gas_a) /\ IsNum(gas_na) /\ IsNum(water)
                      /\ r.RGO[1] * r.Oil[1] = 1000 * (gas_a[1] + gas_na[1]) * r.RGO[2]
                      /\ r.RAO[1] * r.Oil[1] = water[1] * r.RAO[2]

\* C8: transform never raises on schema drift: whichever column of the steps
\* is absent, it returns a result that has all the derived columns.
C8_NeverRaisesOnDrift ==
    pc = "transformed" => (out.raised = "" /\ DerivedCols \subseteq out.cols)

\* C9: a source file is requested from the network only while no local copy
\* exists under its (year, environment, filename) path: never when a copy
\* exists, never again once a GET of it succeeded; a successful GET leaves the
\* copy, a failed one leaves none, local copies are never removed, and a load
\* requests every listed file that has no copy.
C9_DownloadOnlyWhileMissing ==
    [][/\ \A i \in FileRequests(requests') :
            /\ ~HasLocalCopy(disk, requests'[i].path)
            /\ \A j \in 1..(i - 1) :
                  requests'[j].path = requests'[i].path => ~requests'[j].ok
            /\ requests'[i].ok => HasLocalCopy(disk', requests'[i].path)
            /\ (\A j \in FileRequests(requests') :
                    requests'[j].path = requests'[i].path => ~requests'[j].ok)
                  => ~HasLocalCopy(disk', requests'[i].path)
       /\ disk \subseteq disk'
       /\ \A f \in disk' \ disk :
            \E i \in FileRequests(requests') :
                requests'[i].path = f.path /\ requests'[i].url = f.url /\ requests'[i].ok
       /\ pc' = "load" =>
            \A k \in 1..Len(files_found') :
                LET path == local_path(files_found'[k].year, target_env',
                                       files_found'[k].filename)
                IN  ~HasLocalCopy(disk, path) =>
                        \E i \in FileRequests(requests') : requests'[i].path = path
      ]_vars

\* a run that skips a file downloaded by an earlier run and retries one whose
\* GET fails again, leaving no copy
C9_Witness ==
    /\ pc = "load"
    /\ \E k \in 1..Len(files_found) :
          LET path == local_path(files_found[k].year, target_env,
                                 files_found[k].filename)
          IN  /\ HasLocalCopy(disk, path)
              /\ \A i \in FileRequests(requests) : requests[i].path # path
    /\ \E i \in FileRequests(requests) :
          ~requests[i].ok /\ ~HasLocalCopy(disk, requests[i].path)

\* the records the files of one environment hold
IsRecordOf(r, env) == r.Campo \in CamposOf(env)

\* C10: the loaded dataset is shown, filtered or offered for export only when
\* the environment recorded at load time is the selected one, and then only
\* records of that environment are shown; with data of the other environment
\* in the session the page shows the warning; and the data, env and
\* campos_selecionados entries of the session are written together, by a load.
C10_ViewMatchesLoadedEnvironment ==
    /\ [](/\ view.kind = "table" =>
                /\ session.has
                /\ session.env = selected_env
                /\ \A k \in 1..Len(view.rows) :
                      /\ IsRecordOf(view.rows[k], selected_env)
                      /\ \E j \in 1..Len(session.data.rows) :
                            session.data.rows[j] = view.rows[k]
          /\ view.export => view.kind = "table"
          /\ (session.has /\ session.data.rows # <<>> /\ session.env # selected_env
                /\ pc # "start") => view.kind = "warning"
          /\ session.has =>
                \A k \in 1..Len(session.data.rows) :
                    /\ IsRecordOf(session.data.rows[k], session.env)
                    /\ session.campos # {} =>
                          session.data.rows[k].Campo \in session.campos)
    /\ [][session' # session =>
            /\ pc' = "main_load"
            /\ session' = [has |-> TRUE, data |-> out', env |-> selected_env',
                           campos |-> session'.campos]
            /\ session'.env = target_env']_vars

\* data of one environment is in the session, the other is selected, and the
\* page shows the warning and no record
C10_Witness ==
    /\ session.has
    /\ session.data.rows # <<>>
    /\ session.env = "Terra"
    /\ selected_env = "Mar"
    /\ view.kind = "warning"

====
